---- MODULE Spec2Model ----
(***************************************************************************)
(* Model of the integrated obstacle-detection loop: main.py (the loop and  *)
(* its shutdown path), audio.py (AudioProcessor), vision.py                *)
(* (VisionProcessor) and integration.py (DecisionEngine).                  *)
(*                                                                         *)
(* Python values are modelled as follows.  A dict is a record carrying the *)
(* field py = "dict" next to its keys; the value None is the record        *)
(* [py |-> "NoneType"].  bytes and str are strings, a list is a sequence.  *)
(* Scores are hundredths (0.5 is 50).  External SDK calls (PyAudio, Vosk,  *)
(* pyttsx3, OpenCV, SNPE) are nondeterministic over their outcomes: a      *)
(* result, or an exception.                                                *)
(***************************************************************************)
EXTENDS Integers, Sequences, FiniteSets, TLC

\* ------------------------------------------------------------------ bounds
MaxIter == 3
MaxLen == 3
MaxOut == 2
LoopOut == 1

\* --------------------------------------------------------------- constants
\* detect_objects(frame, score_threshold=0.5), in hundredths
DefaultScoreThreshold == 50

WARNING == "Warning: Obstacle ahead!"

\* class ids an inference output or a detection record may carry
ClassIds == {1, 3, 5}
\* scores below, at and above the default threshold
Scores == {40, 50, 90}
Boxes == {"boxA", "boxB"}
\* thresholds a caller of detect_objects passes: the default and a higher one
Thresholds == {DefaultScoreThreshold, 90}
Texts == {"", "hello"}

\* dict.get(key) of a missing key
NoClass == 0

PyNone == [py |-> "NoneType"]

\* main(): DecisionEngine(obstacle_classes=[1, 2, 3])
MainObstacleClasses == {1, 2, 3}

\* bool(s) of a str / bytes value
Truthy(s) == s # ""

\* all sequences over S of length at most n
SeqsUpTo(S, n) == UNION {[1..k -> S] : k \in 0..n}

VARIABLES
    \* ---- main(): control and locals
    pc, cause, propagated, entered, constructed, iter,
    audio_data, recognized_text, frame, detections, warning_message,
    obstacle_classes,
    \* ---- gateway resources
    stream, pyaudio_instance, cap,
    \* ---- observation of the calls main makes
    invoked, audioCloseCalls, visionCloseCalls, iterSpeaks, spoken,
    uttered, sleepsSince, gaps, interruptedAt, fault,
    \* ---- DecisionEngine.process_inputs, called directly
    d_obs, d_text, d_list, d_text2, d_list2, d_out, d_out2,
    \* ---- VisionProcessor.detect_objects, called directly
    v_pre, v_inf, v_outputs, v_thr, v_done, v_result

mainVars == <<pc, cause, propagated, entered, constructed, iter,
              audio_data, recognized_text, frame, detections, warning_message,
              obstacle_classes, stream, pyaudio_instance, cap,
              invoked, audioCloseCalls, visionCloseCalls, iterSpeaks, spoken,
              uttered, sleepsSince, gaps, interruptedAt, fault>>
decideVars == <<d_obs, d_text, d_list, d_text2, d_list2, d_out, d_out2>>
detectVars == <<v_pre, v_inf, v_outputs, v_thr, v_done, v_result>>
vars == <<mainVars, decideVars, detectVars>>

\* ======================================================================
\* integration.py: DecisionEngine
\* ======================================================================

\* detection.get('class'): AttributeError on a value that is no dict,
\* None (NoClass) when the key is missing
HasGet(d) == d.py = "dict"
GetClass(d) == IF "class" \in DOMAIN d THEN d.class ELSE NoClass

\* any(detection.get('class') in self.obstacle_classes for detection in ...):
\* the generator is consumed left to right and stops at the first True;
\* an entry without .get raises out of any().
RECURSIVE AnyObstacle(_, _, _)
AnyObstacle(obs, dets, i) ==
    IF i > Len(dets) THEN "False"
    ELSE IF ~HasGet(dets[i]) THEN "raise"
    ELSE IF GetClass(dets[i]) \in obs THEN "True"
    ELSE AnyObstacle(obs, dets, i + 1)

\* a plausible slip: only the first detection is examined
process_inputs_first_only(obs, audio_text, detection_results) ==
    IF Len(detection_results) > 0
       /\ HasGet(detection_results[1])
       /\ GetClass(detection_results[1]) \in obs
    THEN WARNING ELSE ""

\* a plausible slip: the membership test is dropped (any detection warns)
process_inputs_any_detection(obs, audio_text, detection_results) ==
    IF Len(detection_results) > 0 THEN WARNING ELSE ""

\* DecisionEngine.process_inputs(audio_text, detection_results) with
\* self.obstacle_classes = obs; audio_text is accepted and not read.
process_inputs(obs, audio_text, detection_results) ==
    LET obstacle_detected == AnyObstacle(obs, detection_results, 1)
    IN  IF obstacle_detected = "raise" THEN ""
        ELSE IF obstacle_detected = "True" THEN WARNING
        ELSE ""

\* ======================================================================
\* vision.py: VisionProcessor.detect_objects
\* ======================================================================

\* outputs.get(key, [])
OutputsGet(outputs, key) == IF key \in DOMAIN outputs THEN outputs[key] ELSE <<>>

\* the for loop of detect_objects from index i on; boxes[i] / classes[i]
\* raise IndexError past the end of their array
RECURSIVE Assemble(_, _, _, _, _, _)
Assemble(boxes, classes, scores, score_threshold, i, acc) ==
    IF i > Len(scores) THEN [raised |-> FALSE, detections |-> acc]
    ELSE IF scores[i] >= score_threshold
         THEN IF i > Len(boxes) \/ i > Len(classes)
              THEN [raised |-> TRUE, detections |-> acc]
              ELSE Assemble(boxes, classes, scores, score_threshold, i + 1,
                            Append(acc, [py |-> "dict", box |-> boxes[i],
                                         class |-> classes[i],
                                         score |-> scores[i]]))
         ELSE Assemble(boxes, classes, scores, score_threshold, i + 1, acc)

\* a plausible slip: strict comparison with the threshold
detect_objects_strict(pre, inf, outputs, score_threshold) ==
    IF pre = "raise" \/ inf = "raise" THEN <<>>
    ELSE LET r == Assemble(OutputsGet(outputs, "detection_boxes"),
                           OutputsGet(outputs, "detection_classes"),
                           OutputsGet(outputs, "detection_scores"),
                           score_threshold + 1, 1, <<>>)
         IN  IF r.raised THEN <<>> ELSE r.detections

\* detect_objects(frame, score_threshold): pre is the outcome of
\* preprocess_frame, inf the outcome of snpe.run_inference, outputs its
\* result.  Every exception is caught and yields [].
detect_objects(pre, inf, outputs, score_threshold) ==
    IF pre = "raise" THEN <<>>
    ELSE IF inf = "raise" THEN <<>>
    ELSE LET r == Assemble(OutputsGet(outputs, "detection_boxes"),
                           OutputsGet(outputs, "detection_classes"),
                           OutputsGet(outputs, "detection_scores"),
                           score_threshold, 1, <<>>)
         IN  IF r.raised THEN <<>> ELSE r.detections

\* which step of detect_objects raised into its except clause, if any
DetectFault(pre, inf, outputs, score_threshold) ==
    IF pre = "raise" THEN "preprocess"
    ELSE IF inf = "raise" THEN "inference"
    ELSE IF Assemble(OutputsGet(outputs, "detection_boxes"),
                     OutputsGet(outputs, "detection_classes"),
                     OutputsGet(outputs, "detection_scores"),
                     score_threshold, 1, <<>>).raised THEN "assembly"
    ELSE "none"

\* the dictionaries run_inference may return, arrays of at most n entries
\* with boxes from B, any of the three keys possibly missing
OutputKeys == {"detection_boxes", "detection_classes", "detection_scores"}
InferenceOutputs(B, n) ==
    { [k \in present |->
         IF k = "detection_boxes" THEN b
         ELSE IF k = "detection_classes" THEN c ELSE s] :
      present \in SUBSET OutputKeys, b \in SeqsUpTo(B, n),
      c \in SeqsUpTo(ClassIds, n), s \in SeqsUpTo(Scores, n) }

NoOutputs == [k \in {} |-> <<>>]

\* the ways one detect_objects call can go: preprocess_frame raises (and
\* inference is not reached), run_inference raises, or it returns a
\* dictionary
DetectRuns(B, n) ==
    {[pre |-> "ok", inf |-> "ok", outputs |-> o] : o \in InferenceOutputs(B, n)}
    \cup {[pre |-> "raise", inf |-> "ok", outputs |-> NoOutputs],
          [pre |-> "ok", inf |-> "raise", outputs |-> NoOutputs]}

\* in the loop of main, which never reads a box, one box value is enough
LoopRuns == DetectRuns({"boxA"}, LoopOut)
DirectRuns == DetectRuns(Boxes, MaxOut)

\* ======================================================================
\* main.py: main(), with the gateway methods of audio.py and vision.py
\* ======================================================================

\* the statements of the while loop, by the call each is about to make
RunningPcs == {"capture_audio", "process_stt", "capture_frame",
               "detect_objects", "process_inputs", "speak", "sleep"}

NdArray == [py |-> "ndarray"]

\* state of main() before its first statement; locals not yet bound are
\* given their neutral values
MainInit ==
    /\ pc = "init_audio"
    /\ cause = "none"
    /\ propagated = "none"
    /\ entered = FALSE
    /\ constructed = <<>>
    /\ iter = 0
    /\ audio_data = ""
    /\ recognized_text = ""
    /\ frame = PyNone
    /\ detections = <<>>
    /\ warning_message = ""
    /\ obstacle_classes = {}
    /\ stream = "none"
    /\ pyaudio_instance = "none"
    /\ cap = "none"
    /\ invoked = {}
    /\ audioCloseCalls = 0
    /\ visionCloseCalls = 0
    /\ iterSpeaks = <<>>
    /\ spoken = {}
    /\ uttered = {}
    /\ sleepsSince = 0
    /\ gaps = {}
    /\ interruptedAt = "none"
    /\ fault = "none"

DecideIdle ==
    /\ d_obs = {}
    /\ d_text = ""
    /\ d_list = <<>>
    /\ d_text2 = ""
    /\ d_list2 = <<>>
    /\ d_out = "unset"
    /\ d_out2 = "unset"

DetectIdle ==
    /\ v_pre = "ok"
    /\ v_inf = "ok"
    /\ v_outputs = NoOutputs
    /\ v_thr = DefaultScoreThreshold
    /\ v_done = FALSE
    /\ v_result = <<>>

pureVars == <<decideVars, detectVars>>

\* a constructor failure that is swallowed instead of propagated
InitAudioSwallow(outcome) ==
    /\ pc = "init_audio"
    /\ fault' = IF outcome = "ok" THEN "none" ELSE outcome
    /\ stream' = IF outcome = "ok" THEN "open" ELSE "none"
    /\ pyaudio_instance' = IF outcome \in {"ok", "stream"} THEN "live" ELSE "none"
    /\ constructed' = Append(constructed, "AudioProcessor")
    /\ pc' = "init_vision"
    /\ UNCHANGED <<cause, propagated, entered, iter, audio_data, recognized_text,
                   frame, detections, warning_message, obstacle_classes, cap,
                   invoked, audioCloseCalls, visionCloseCalls, iterSpeaks,
                   spoken, uttered, sleepsSince, gaps, interruptedAt, pureVars>>

\* audio_processor = AudioProcessor(...): pyttsx3.init(), Model/KaldiRecognizer,
\* PyAudio().open(); each failure is logged and re-raised, and propagates out
\* of main (the call is outside the try).
InitAudio(outcome) ==
    /\ pc = "init_audio"
    /\ fault' = IF outcome = "ok" THEN "none" ELSE outcome
    /\ stream' = IF outcome = "ok" THEN "open" ELSE "none"
    /\ pyaudio_instance' = IF outcome \in {"ok", "stream"} THEN "live" ELSE "none"
    /\ IF outcome = "ok"
       THEN /\ constructed' = Append(constructed, "AudioProcessor")
            /\ pc' = "init_vision"
            /\ UNCHANGED propagated
       ELSE /\ pc' = "exit"
            /\ propagated' = outcome
            /\ UNCHANGED constructed
    /\ UNCHANGED <<cause, entered, iter, audio_data, recognized_text,
                   frame, detections, warning_message, obstacle_classes, cap,
                   invoked, audioCloseCalls, visionCloseCalls, iterSpeaks,
                   spoken, uttered, sleepsSince, gaps, interruptedAt, pureVars>>

\* a cleanup that would cover the Initializing state: a failed vision
\* constructor runs the finally block
InitVisionCleanup(outcome) ==
    /\ pc = "init_vision"
    /\ fault' = IF outcome = "ok" THEN "none" ELSE outcome
    /\ cap' = IF outcome = "camera" THEN "unopened" ELSE "open"
    /\ IF outcome = "ok"
       THEN /\ constructed' = Append(constructed, "VisionProcessor")
            /\ pc' = "init_engine"
            /\ UNCHANGED propagated
       ELSE /\ pc' = "close_audio"
            /\ propagated' = outcome
            /\ UNCHANGED constructed
    /\ UNCHANGED <<cause, entered, iter, audio_data, recognized_text,
                   frame, detections, warning_message, obstacle_classes,
                   stream, pyaudio_instance,
                   invoked, audioCloseCalls, visionCloseCalls, iterSpeaks,
                   spoken, uttered, sleepsSince, gaps, interruptedAt, pureVars>>

\* vision_processor = VisionProcessor(...): cv2.VideoCapture + isOpened()
\* (IOError), os.path.exists(dlc_file) (ValueError), SNPE()/load_dlc/
\* get_input_shape.  Nothing is caught; the camera opened before a later
\* failure is not released.
InitVision(outcome) ==
    /\ pc = "init_vision"
    /\ fault' = IF outcome = "ok" THEN "none" ELSE outcome
    /\ cap' = IF outcome = "camera" THEN "unopened" ELSE "open"
    /\ IF outcome = "ok"
       THEN /\ constructed' = Append(constructed, "VisionProcessor")
            /\ pc' = "init_engine"
            /\ UNCHANGED propagated
       ELSE /\ pc' = "exit"
            /\ propagated' = outcome
            /\ UNCHANGED constructed
    /\ UNCHANGED <<cause, entered, iter, audio_data, recognized_text,
                   frame, detections, warning_message, obstacle_classes,
                   stream, pyaudio_instance,
                   invoked, audioCloseCalls, visionCloseCalls, iterSpeaks,
                   spoken, uttered, sleepsSince, gaps, interruptedAt, pureVars>>

\* decision_engine = DecisionEngine(obstacle_classes=[1, 2, 3]); then the
\* try block and its while True are entered.
InitEngine ==
    /\ pc = "init_engine"
    /\ fault' = "none"
    /\ obstacle_classes' = MainObstacleClasses
    /\ constructed' = Append(constructed, "DecisionEngine")
    /\ entered' = TRUE
    /\ pc' = "capture_audio"
    /\ UNCHANGED <<cause, propagated, iter, audio_data, recognized_text,
                   frame, detections, warning_message,
                   stream, pyaudio_instance, cap,
                   invoked, audioCloseCalls, visionCloseCalls, iterSpeaks,
                   spoken, uttered, sleepsSince, gaps, interruptedAt, pureVars>>

\* audio_data = audio_processor.capture_audio(): stream.read, or b"" when it
\* raises.  A new iteration starts here.
CaptureAudio(outcome) ==
    /\ pc = "capture_audio"
    /\ fault' = IF outcome = "ok" THEN "none" ELSE "audio_read"
    /\ iter < MaxIter
    /\ iter' = iter + 1
    /\ audio_data' = IF outcome = "ok" THEN "chunk" ELSE ""
    /\ invoked' = invoked \cup {"capture_audio"}
    /\ gaps' = IF iter > 0 THEN gaps \cup {sleepsSince} ELSE gaps
    /\ sleepsSince' = 0
    /\ iterSpeaks' = <<>>
    /\ pc' = "process_stt"
    /\ UNCHANGED <<cause, propagated, entered, constructed, recognized_text,
                   frame, detections, warning_message, obstacle_classes,
                   stream, pyaudio_instance, cap, audioCloseCalls,
                   visionCloseCalls, spoken, uttered, interruptedAt, pureVars>>

\* recognized_text = audio_processor.process_stt(audio_data)
ProcessStt(outcome, text) ==
    /\ pc = "process_stt"
    /\ fault' = IF Truthy(audio_data) /\ outcome = "error" THEN "stt" ELSE "none"
    /\ recognized_text' = IF ~Truthy(audio_data) THEN ""
                          ELSE IF outcome = "final" THEN text
                          ELSE ""
    /\ invoked' = invoked \cup {"process_stt"}
    /\ pc' = "capture_frame"
    /\ UNCHANGED <<cause, propagated, entered, constructed, iter, audio_data,
                   frame, detections, warning_message, obstacle_classes,
                   stream, pyaudio_instance, cap, audioCloseCalls,
                   visionCloseCalls, iterSpeaks, spoken, uttered, sleepsSince, gaps,
                   interruptedAt, pureVars>>

\* frame = vision_processor.capture_frame(); if frame is None: continue.
\* cap.read() is not guarded: (True, frame), (False, None), or an exception
\* that leaves capture_frame and is caught by main's except Exception.
CaptureFrame(outcome) ==
    /\ pc = "capture_frame"
    /\ fault' = IF outcome = "frame" THEN "none"
              ELSE IF outcome = "fail" THEN "frame_none" ELSE "frame_raise"
    /\ invoked' = invoked \cup {"capture_frame"}
    /\ frame' = IF outcome = "frame" THEN NdArray ELSE PyNone
    /\ pc' = IF outcome = "frame" THEN "detect_objects"
             ELSE IF outcome = "fail" THEN "capture_audio"
             ELSE "close_audio"
    /\ cause' = IF outcome = "raise" THEN "Exception" ELSE cause
    /\ UNCHANGED <<propagated, entered, constructed, iter, audio_data,
                   recognized_text, detections, warning_message,
                   obstacle_classes, stream, pyaudio_instance, cap,
                   audioCloseCalls, visionCloseCalls, iterSpeaks, spoken, uttered,
                   sleepsSince, gaps, interruptedAt, pureVars>>

\* detections = vision_processor.detect_objects(frame)
DetectObjects(pre, inf, outputs) ==
    /\ pc = "detect_objects"
    /\ fault' = DetectFault(pre, inf, outputs, DefaultScoreThreshold)
    /\ detections' = detect_objects(pre, inf, outputs, DefaultScoreThreshold)
    /\ invoked' = invoked \cup {"detect_objects"}
    /\ pc' = "process_inputs"
    /\ UNCHANGED <<cause, propagated, entered, constructed, iter, audio_data,
                   recognized_text, frame, warning_message, obstacle_classes,
                   stream, pyaudio_instance, cap, audioCloseCalls,
                   visionCloseCalls, iterSpeaks, spoken, uttered, sleepsSince, gaps,
                   interruptedAt, pureVars>>

\* warning_message = decision_engine.process_inputs(recognized_text,
\* detections); if warning_message: speak, else straight to the sleep
ProcessInputs ==
    /\ pc = "process_inputs"
    /\ fault' = "none"
    /\ warning_message' = process_inputs(obstacle_classes, recognized_text,
                                         detections)
    /\ invoked' = invoked \cup {"process_inputs"}
    /\ pc' = IF Truthy(warning_message') THEN "speak" ELSE "sleep"
    /\ UNCHANGED <<cause, propagated, entered, constructed, iter, audio_data,
                   recognized_text, frame, detections, obstacle_classes,
                   stream, pyaudio_instance, cap, audioCloseCalls,
                   visionCloseCalls, iterSpeaks, spoken, uttered, sleepsSince, gaps,
                   interruptedAt, pureVars>>

\* a plausible slip: the recognized text is what is spoken
SpeakRecognized(outcome) ==
    /\ pc = "speak"
    /\ fault' = IF outcome = "ok" THEN "none" ELSE "tts_say"
    /\ invoked' = invoked \cup {"speak"}
    /\ iterSpeaks' = Append(iterSpeaks, recognized_text)
    /\ spoken' = spoken \cup {recognized_text}
    /\ uttered' = IF Truthy(recognized_text) /\ outcome = "ok"
                  THEN uttered \cup {recognized_text} ELSE uttered
    /\ pc' = "sleep"
    /\ UNCHANGED <<cause, propagated, entered, constructed, iter, audio_data,
                   recognized_text, frame, detections, warning_message,
                   obstacle_classes, stream, pyaudio_instance, cap,
                   audioCloseCalls, visionCloseCalls, sleepsSince, gaps,
                   interruptedAt, pureVars>>

\* audio_processor.speak(warning_message): returns at once on an empty
\* text, else engine.say + runAndWait; a failure is logged and swallowed.
\* iterSpeaks / spoken record the call, uttered what the engine said.
Speak(outcome) ==
    /\ pc = "speak"
    /\ fault' = IF outcome = "ok" THEN "none" ELSE "tts_say"
    /\ invoked' = invoked \cup {"speak"}
    /\ iterSpeaks' = Append(iterSpeaks, warning_message)
    /\ spoken' = spoken \cup {warning_message}
    /\ uttered' = IF Truthy(warning_message) /\ outcome = "ok"
                  THEN uttered \cup {warning_message} ELSE uttered
    /\ pc' = "sleep"
    /\ UNCHANGED <<cause, propagated, entered, constructed, iter, audio_data,
                   recognized_text, frame, detections, warning_message,
                   obstacle_classes, stream, pyaudio_instance, cap,
                   audioCloseCalls, visionCloseCalls, sleepsSince, gaps,
                   interruptedAt, pureVars>>

\* time.sleep(0.1), the last statement of the loop body
Sleep ==
    /\ pc = "sleep"
    /\ fault' = "none"
    /\ invoked' = invoked \cup {"sleep"}
    /\ sleepsSince' = sleepsSince + 1
    /\ pc' = "capture_audio"
    /\ UNCHANGED <<cause, propagated, entered, constructed, iter, audio_data,
                   recognized_text, frame, detections, warning_message,
                   obstacle_classes, stream, pyaudio_instance, cap,
                   audioCloseCalls, visionCloseCalls, iterSpeaks, spoken, uttered,
                   gaps, interruptedAt, pureVars>>

\* an interrupt handler that leaves without the finally block
InterruptNoFinally(during) ==
    /\ pc \in RunningPcs
    /\ fault' = fault
    /\ cause' = "KeyboardInterrupt"
    /\ interruptedAt' = pc
    /\ pc' = "exit"
    /\ UNCHANGED <<propagated, entered, constructed, iter, audio_data,
                   recognized_text, frame, detections, warning_message,
                   obstacle_classes, stream, pyaudio_instance, cap,
                   invoked, iterSpeaks, spoken, uttered,
                   audioCloseCalls, visionCloseCalls, sleepsSince, gaps,
                   pureVars>>

\* KeyboardInterrupt delivered in the loop: before the pending call
\* (during = FALSE) or inside it (during = TRUE).  It is a BaseException, so
\* no gateway's except Exception catches it; main's except KeyboardInterrupt
\* logs and the finally block follows.
Interrupt(during) ==
    /\ pc \in RunningPcs
    /\ fault' = fault
    /\ cause' = "KeyboardInterrupt"
    /\ interruptedAt' = pc
    /\ invoked' = IF during THEN invoked \cup {pc} ELSE invoked
    /\ iterSpeaks' = IF during /\ pc = "speak"
                     THEN Append(iterSpeaks, warning_message) ELSE iterSpeaks
    /\ spoken' = IF during /\ pc = "speak"
                 THEN spoken \cup {warning_message} ELSE spoken
    /\ \E said \in BOOLEAN :
          uttered' = IF during /\ pc = "speak" /\ said
                     THEN uttered \cup {warning_message} ELSE uttered
    /\ pc' = "close_audio"
    /\ UNCHANGED <<propagated, entered, constructed, iter, audio_data,
                   recognized_text, frame, detections, warning_message,
                   obstacle_classes, stream, pyaudio_instance, cap,
                   audioCloseCalls, visionCloseCalls, sleepsSince, gaps,
                   pureVars>>

\* finally: audio_processor.close().  stop_stream/close and terminate are
\* inside one try; an exception is logged and skips what follows it.
CloseAudio(outcome) ==
    /\ pc = "close_audio"
    /\ fault' = IF outcome = "ok" THEN "none" ELSE outcome
    /\ audioCloseCalls' = audioCloseCalls + 1
    /\ invoked' = invoked \cup {"close_audio"}
    /\ stream' = IF outcome = "stream_error" THEN stream ELSE "closed"
    /\ pyaudio_instance' = IF outcome = "ok" THEN "terminated"
                           ELSE pyaudio_instance
    /\ pc' = "close_vision"
    /\ UNCHANGED <<cause, propagated, entered, constructed, iter, audio_data,
                   recognized_text, frame, detections, warning_message,
                   obstacle_classes, cap, visionCloseCalls, iterSpeaks,
                   spoken, uttered, sleepsSince, gaps, interruptedAt, pureVars>>

\* finally: vision_processor.close().  cap.release() is not guarded: an
\* exception leaves close() and, from the finally block, main.
CloseVision(outcome) ==
    /\ pc = "close_vision"
    /\ fault' = IF outcome = "ok" THEN "none" ELSE "camera_release"
    /\ visionCloseCalls' = visionCloseCalls + 1
    /\ invoked' = invoked \cup {"close_vision"}
    /\ cap' = IF outcome = "ok" THEN "released" ELSE cap
    /\ propagated' = IF outcome = "ok" THEN propagated ELSE "release_error"
    /\ pc' = "exit"
    /\ UNCHANGED <<cause, entered, constructed, iter, audio_data,
                   recognized_text, frame, detections, warning_message,
                   obstacle_classes, stream, pyaudio_instance,
                   audioCloseCalls, iterSpeaks, spoken, uttered, sleepsSince, gaps,
                   interruptedAt, pureVars>>

Init == MainInit /\ DecideIdle /\ DetectIdle

Next ==
    \/ \E outcome \in {"ok", "tts", "vosk", "stream"} : InitAudio(outcome)
    \/ \E outcome \in {"ok", "camera", "dlc", "snpe"} : InitVision(outcome)
    \/ InitEngine
    \/ \E outcome \in {"ok", "error"} : CaptureAudio(outcome)
    \/ \E outcome \in {"final", "partial", "error"}, text \in Texts :
          ProcessStt(outcome, text)
    \/ \E outcome \in {"frame", "fail", "raise"} : CaptureFrame(outcome)
    \/ \E run \in LoopRuns : DetectObjects(run.pre, run.inf, run.outputs)
    \/ ProcessInputs
    \/ \E outcome \in {"ok", "error"} : Speak(outcome)
    \/ Sleep
    \/ \E during \in BOOLEAN : Interrupt(during)
    \/ \E outcome \in {"ok", "stream_error", "terminate_error"} : CloseAudio(outcome)
    \/ \E outcome \in {"ok", "raise"} : CloseVision(outcome)

Spec == Init /\ [][Next]_vars

\* ======================================================================
\* DecisionEngine.process_inputs called directly, on two argument pairs:
\* (d_text, d_list) and (d_text2, d_list2), the second list a permutation
\* of the first
\* ======================================================================

\* what a caller may put in a detection list: a detection dict, a dict
\* without the 'class' key, and a value that is no dict
DecideEntries ==
    {[py |-> "dict", box |-> "boxA", class |-> c, score |-> 90] : c \in ClassIds}
    \cup {[py |-> "dict", box |-> "boxA", score |-> 90]}
    \cup {PyNone}

DecideInit ==
    /\ MainInit
    /\ DetectIdle
    /\ d_obs \in SUBSET ClassIds
    /\ d_text \in Texts
    /\ d_list \in SeqsUpTo(DecideEntries, MaxLen)
    /\ d_text2 = d_text
    /\ d_list2 = d_list
    /\ d_out = "unset"
    /\ d_out2 = "unset"

\* the second list with entries i and j exchanged
DecidePermute(i, j) ==
    /\ d_out = "unset"
    /\ i < j
    /\ d_list2[i] # d_list2[j]
    /\ d_list2' = [d_list2 EXCEPT ![i] = d_list2[j], ![j] = d_list2[i]]
    /\ UNCHANGED <<d_obs, d_text, d_list, d_text2, d_out, d_out2,
                   mainVars, detectVars>>

DecideSetText(t) ==
    /\ d_out = "unset"
    /\ t # d_text2
    /\ d_text2' = t
    /\ UNCHANGED <<d_obs, d_text, d_list, d_list2, d_out, d_out2,
                   mainVars, detectVars>>

\* the two calls, on one engine (stateless: self.obstacle_classes is only read)
DecideCall ==
    /\ d_out = "unset"
    /\ d_out' = process_inputs(d_obs, d_text, d_list)
    /\ d_out2' = process_inputs(d_obs, d_text2, d_list2)
    /\ UNCHANGED <<d_obs, d_text, d_list, d_text2, d_list2,
                   mainVars, detectVars>>

DecideNext ==
    \/ \E i \in DOMAIN d_list2, j \in DOMAIN d_list2 : DecidePermute(i, j)
    \/ \E t \in Texts : DecideSetText(t)
    \/ DecideCall

SpecDecide == DecideInit /\ [][DecideNext]_vars

\* ======================================================================
\* VisionProcessor.detect_objects called directly
\* ======================================================================

DetectInit ==
    /\ MainInit
    /\ DecideIdle
    /\ \E run \in DirectRuns :
          /\ v_pre = run.pre
          /\ v_inf = run.inf
          /\ v_outputs = run.outputs
    /\ v_thr \in Thresholds
    /\ v_done = FALSE
    /\ v_result = <<>>

DetectCall ==
    /\ ~v_done
    /\ v_result' = detect_objects(v_pre, v_inf, v_outputs, v_thr)
    /\ v_done' = TRUE
    /\ UNCHANGED <<v_pre, v_inf, v_outputs, v_thr, mainVars, decideVars>>

DetectNext == DetectCall

SpecDetect == DetectInit /\ [][DetectNext]_vars

\* ======================================================================
\* Properties
\* ======================================================================

ConstructionOrder == <<"AudioProcessor", "VisionProcessor", "DecisionEngine">>
InitFailures == {"tts", "vosk", "stream", "camera", "dlc", "snpe"}
LoopCalls == RunningPcs

\* some entry of L is a dict whose 'class' value is in obs
HasObstacle(obs, L) ==
    \E i \in DOMAIN L : HasGet(L[i]) /\ "class" \in DOMAIN L[i] /\ L[i].class \in obs

\* every entry of L is a dict
AllDicts(L) == \A i \in DOMAIN L : HasGet(L[i])

\* ---------------------------------------------------------------- C1
\* C1: in a run whose loop was left by a KeyboardInterrupt, neither close()
\* is ever invoked twice, and once main has ended AudioProcessor.close() and
\* VisionProcessor.close() have each been invoked exactly once.
C1_ShutdownExactlyOnce ==
    /\ audioCloseCalls <= 1
    /\ visionCloseCalls <= 1
    /\ (cause = "KeyboardInterrupt" /\ pc = "exit")
          => (audioCloseCalls = 1 /\ visionCloseCalls = 1)

\* main has ended after an interrupt delivered inside speak
C1_Witness ==
    /\ pc = "exit"
    /\ cause = "KeyboardInterrupt"
    /\ interruptedAt = "speak"
    /\ "speak" \in invoked

\* ---------------------------------------------------------------- C2
\* C2: on a detection list whose entries are all dicts, process_inputs
\* returns the warning string exactly when some entry's class is in the
\* obstacle set, and the empty string otherwise (so "" on the empty list),
\* whatever the text.
C2_DecideIffObstacle ==
    (d_out # "unset" /\ AllDicts(d_list) /\ AllDicts(d_list2)) =>
        /\ d_out = (IF HasObstacle(d_obs, d_list) THEN WARNING ELSE "")
        /\ d_out2 = (IF HasObstacle(d_obs, d_list2) THEN WARNING ELSE "")
        /\ (d_list = <<>> => d_out = "")

\* the only obstacle is the last entry of a list of dicts, one of which
\* has no 'class' key
C2_Witness ==
    /\ d_out = WARNING
    /\ Len(d_list) >= 2
    /\ AllDicts(d_list)
    /\ ~HasObstacle(d_obs, SubSeq(d_list, 1, Len(d_list) - 1))
    /\ \E i \in DOMAIN d_list : "class" \notin DOMAIN d_list[i]

\* ---------------------------------------------------------------- C3
\* C3 (as stated): for every detection list, every permutation of it and
\* every two texts, the two calls return the same string.
C3_PermutationInvariant_AnyList ==
    d_out # "unset" => d_out = d_out2

\* C3 (amended): for every detection list whose entries are all dicts,
\* every permutation of it and every two texts, the two calls return the
\* same string.
C3_PermutationInvariant ==
    (d_out # "unset" /\ AllDicts(d_list)) => d_out = d_out2

\* a warning returned for a list of dicts and for a different ordering of
\* it under a different text
C3_Witness ==
    /\ d_out = WARNING
    /\ d_out2 = WARNING
    /\ AllDicts(d_list)
    /\ d_list2 # d_list
    /\ d_list2[1] # d_list[1]
    /\ d_text2 # d_text

\* ---------------------------------------------------------------- C4
\* C4: a failed audio read, STT pass, frame capture, inference call or
\* speech synthesis yields its neutral value, and the loop is left only by
\* an interrupt.
C4_NoFaultEndsLoop ==
    /\ (entered /\ pc \notin RunningPcs) => cause = "KeyboardInterrupt"
    /\ (cause = "none" /\ fault = "audio_read") => audio_data = ""
    /\ (cause = "none" /\ fault = "stt") => recognized_text = ""
    /\ (cause # "KeyboardInterrupt" /\ fault \in {"frame_none", "frame_raise"})
          => (cause = "none" /\ frame = PyNone)
    /\ (cause = "none" /\ fault \in {"preprocess", "inference", "assembly"})
          => detections = <<>>

\* ---------------------------------------------------------------- C5
\* C5: speak is only ever invoked with the warning string; an iteration
\* that obtained a frame and reached its sleep has invoked speak exactly
\* once, with the warning, when its detections hold an obstacle class, and
\* not at all otherwise; an iteration without a frame never invokes speak.
C5_SpeechDrivenByDecision ==
    /\ spoken \subseteq {WARNING}
    /\ uttered \subseteq {WARNING}
    /\ Len(iterSpeaks) <= 1
    /\ (pc = "sleep" /\ frame = NdArray) =>
          iterSpeaks = (IF HasObstacle(obstacle_classes, detections)
                        THEN <<WARNING>> ELSE <<>>)
    /\ (pc \in {"process_stt", "capture_frame", "detect_objects",
                "process_inputs"}) => iterSpeaks = <<>>
    /\ frame = PyNone => iterSpeaks = <<>>

\* the scripted scenario: text "hello", one detection above the threshold
\* with an obstacle class, the warning spoken once
C5_Witness ==
    /\ pc = "sleep"
    /\ recognized_text = "hello"
    /\ Len(detections) = 1
    /\ detections[1].class \in obstacle_classes
    /\ iterSpeaks = <<WARNING>>

\* ---------------------------------------------------------------- C6
\* C6: a failure to release the audio stream/device or the camera during
\* shutdown does not leave close() or main, and both close() calls are made.
C6_ShutdownFailuresNotRaised ==
    (entered /\ pc = "exit") =>
        /\ propagated = "none"
        /\ audioCloseCalls = 1
        /\ visionCloseCalls = 1

\* ---------------------------------------------------------------- C7
\* C7: the components are constructed in the order AudioProcessor,
\* VisionProcessor, DecisionEngine; a constructor failure propagates out of
\* main at once, and in that run the loop is never entered and no capture,
\* recognize, detect, decide, speak or sleep call is made.
C7_FatalStartup ==
    /\ Len(constructed) <= Len(ConstructionOrder)
    /\ constructed = SubSeq(ConstructionOrder, 1, Len(constructed))
    /\ entered => constructed = ConstructionOrder
    /\ ~entered => (invoked \cap LoopCalls = {} /\ iter = 0)
    /\ fault \in InitFailures =>
          /\ propagated = fault
          /\ pc = "exit"
          /\ ~entered
          /\ invoked = {}

\* the vision constructor failed on the missing model file after the audio
\* gateway was constructed
C7_Witness ==
    /\ fault = "dlc"
    /\ propagated = "dlc"
    /\ constructed = <<"AudioProcessor">>
    /\ pc = "exit"

\* ---------------------------------------------------------------- C8
\* C8: between any two consecutive capture_audio calls there is exactly
\* one sleep, also when the frame capture returned None.
C8_OneSleepPerIteration ==
    gaps \subseteq {1}

\* ---------------------------------------------------------------- C9
Out_boxes == OutputsGet(v_outputs, "detection_boxes")
Out_classes == OutputsGet(v_outputs, "detection_classes")
Out_scores == OutputsGet(v_outputs, "detection_scores")

\* the indices of the scores that reach the threshold, in increasing order
KeptIndices ==
    SelectSeq([i \in 1..Len(Out_scores) |-> i],
              LAMBDA i : Out_scores[i] >= v_thr)

\* a step raised: preprocessing, inference, or a kept index past the end
\* of the boxes or of the classes
DetectRaises ==
    \/ v_pre = "raise"
    \/ v_inf = "raise"
    \/ \E i \in 1..Len(Out_scores) :
          Out_scores[i] >= v_thr /\ (i > Len(Out_boxes) \/ i > Len(Out_classes))

ArraysMismatched ==
    ~(Len(Out_boxes) = Len(Out_classes) /\ Len(Out_classes) = Len(Out_scores))

\* C9 (as stated): detect_objects returns the outputs whose score reaches
\* the threshold, in order, with the box, class and score of their index;
\* and when preprocessing or inference raises, or the arrays differ in
\* length, it returns the empty list.
C9_Detect_MismatchIsEmpty ==
    v_done =>
        IF v_pre = "raise" \/ v_inf = "raise" \/ ArraysMismatched
        THEN v_result = <<>>
        ELSE v_result = [k \in 1..Len(KeptIndices) |->
                           [py |-> "dict", box |-> Out_boxes[KeptIndices[k]],
                            class |-> Out_classes[KeptIndices[k]],
                            score |-> Out_scores[KeptIndices[k]]]]

\* C9 (amended): detect_objects returns the outputs whose score reaches the
\* threshold (equality included), in order, with the box, class and score
\* of their index; and it returns the empty list, never a partial one,
\* exactly when preprocessing or inference raises or an output that reaches
\* the threshold has no box or no class at its index (or nothing reaches
\* the threshold).
C9_DetectFilter ==
    v_done =>
        IF DetectRaises
        THEN v_result = <<>>
        ELSE v_result = [k \in 1..Len(KeptIndices) |->
                           [py |-> "dict", box |-> Out_boxes[KeptIndices[k]],
                            class |-> Out_classes[KeptIndices[k]],
                            score |-> Out_scores[KeptIndices[k]]]]

\* two outputs kept in order, the first with a score equal to the threshold
C9_Witness ==
    /\ v_done
    /\ Len(v_result) = 2
    /\ v_result[1].score = v_thr
    /\ v_result[1].box # v_result[2].box
    /\ v_result[1].class # v_result[2].class

\* ---------------------------------------------------------------- C10
\* C10: close() is invoked only in runs that entered the loop; a run whose
\* startup aborted ends with no close() call, the audio stream and the
\* camera it had opened still open.
C10_NoCleanupInInitializing ==
    /\ (audioCloseCalls > 0 \/ visionCloseCalls > 0
        \/ invoked \cap {"close_audio", "close_vision"} # {}) => entered
    /\ (~entered /\ fault \in InitFailures) =>
          /\ pc = "exit"
          /\ audioCloseCalls = 0
          /\ visionCloseCalls = 0
          /\ (fault \in {"camera", "dlc", "snpe"} =>
                (stream = "open" /\ pyaudio_instance = "live"))
          /\ (fault \in {"dlc", "snpe"} => cap = "open")

\* startup aborted on the missing model file with the stream and the
\* camera open
C10_Witness ==
    /\ pc = "exit"
    /\ ~entered
    /\ propagated = "dlc"
    /\ stream = "open"
    /\ cap = "open"
    /\ audioCloseCalls = 0

====
